---------------------------- MODULE Spec2Model ----------------------------
(***************************************************************************)
(* media-proxy/server.mjs: the three server variants the file holds        *)
(*   "jellyfin"  lines    1-533  (Jellyfin API + Playback Reporting db)     *)
(*   "tautulli"  lines  535-712  (Tautulli only)                            *)
(*   "plex"      lines  714-1202 (Tautulli + Plex)                          *)
(* modelled as one state machine: the process environment, the clock, the   *)
(* TTL cache, the requests in flight, and the pure helpers the handlers     *)
(* call.                                                                    *)
(***************************************************************************)
EXTENDS Integers, Sequences, FiniteSets, TLC

VARIABLES
  env,     \* process.env as read at startup, the time zone, the engine's Date.parse
  now,     \* Date.now(), epoch milliseconds
  cache,   \* the Map of the tiny cache: key -> {data, t}
  reqs,    \* the requests in flight and their responses
  arg,     \* the arguments of the helper call under study
  ret      \* what that call returned

vars == <<env, now, cache, reqs, arg, ret>>

(***************************************************************************)
(* JavaScript numbers.  Epoch milliseconds and the constant 9999999999 do   *)
(* not fit 32-bit integers, so a number is kept as two limbs,               *)
(* value = hi * Base + lo with 0 <= lo < Base; hi carries the sign.         *)
(***************************************************************************)
Base == 100000

Num(h, l) == [hi |-> h, lo |-> l]

Zero == Num(0, 0)

FromInt(n) == Num(n \div Base, n % Base)

NumLT(a, b) == a.hi < b.hi \/ (a.hi = b.hi /\ a.lo < b.lo)

NumLE(a, b) == ~NumLT(b, a)

NumAdd(a, b) == Num(a.hi + b.hi + ((a.lo + b.lo) \div Base), (a.lo + b.lo) % Base)

NumSub(a, b) ==
  IF a.lo >= b.lo THEN Num(a.hi - b.hi, a.lo - b.lo)
  ELSE Num(a.hi - b.hi - 1, a.lo + Base - b.lo)

\* a * k for a small non-negative integer k
NumMul(a, k) == Num(a.hi * k + ((a.lo * k) \div Base), (a.lo * k) % Base)

\* Math.floor(a / d) for a divisor d that is a whole multiple of Base
NumFloorDiv(a, d) == a.hi \div d.hi

(***************************************************************************)
(* JavaScript values as they occur in upstream JSON and in results.         *)
(* A string is kept by its form: "iso" an ISO-8601 date-time string of the  *)
(* instant n, "digits" the decimal digits of n, "text" any other non-empty  *)
(* text, "empty" the empty string.                                          *)
(***************************************************************************)
Undefined == [k |-> "undefined", form |-> "", n |-> Zero]

Null == [k |-> "null", form |-> "", n |-> Zero]

NaN == [k |-> "NaN", form |-> "", n |-> Zero]

NumV(n) == [k |-> "number", form |-> "", n |-> n]

StrV(form, n) == [k |-> "string", form |-> form, n |-> n]

\* !c is false
Truthy(c) ==
  CASE c.k = "undefined" -> FALSE
    [] c.k = "null" -> FALSE
    [] c.k = "NaN" -> FALSE
    [] c.k = "number" -> c.n # Zero
    [] c.k = "string" -> c.form # "empty"
    [] OTHER -> TRUE

\* What the engine's legacy (non-ISO) date parser makes of a digit string is
\* implementation-defined: NaN, or a date that reads the digits as a year or a
\* month.  LegacyDate stands for such a date; it is no multiple of the input.
LegacyDate == Num(20000000, 1)

LegacyOutcomes == {"NaN", "date"}

\* Date.parse(c); a number argument is first converted to its digit string
DateParse(c, legacy) ==
  IF c.k = "string" /\ c.form = "iso" THEN NumV(c.n)
  ELSE IF c.k = "number" \/ (c.k = "string" /\ c.form = "digits")
       THEN (IF legacy = "date" THEN NumV(LegacyDate) ELSE NaN)
       ELSE NaN

SEC_MIN == FromInt(100000)

\* 9999999999
MS_MIN == Num(99999, 99999)

CandidateFields ==
  <<"viewed_at", "date", "started", "time", "last_played", "played_at", "event_time">>

candidates(x) == [i \in 1..Len(CandidateFields) |-> x[CandidateFields[i]]]

\* the loop goes on to the next candidate
Continue == [k |-> "continue", form |-> "", n |-> Zero]

\* the loop's turn with the epoch seconds left unscaled
classifyCandidateUnscaled(c, legacy) ==
  IF ~Truthy(c) THEN Continue
  ELSE IF c.k = "number" /\ NumLT(SEC_MIN, c.n) THEN c
  ELSE LET t == DateParse(c, legacy) IN
    IF t.k # "NaN" THEN t ELSE Continue

\* one turn of the loop over the candidates
classifyCandidate(c, legacy) ==
  IF ~Truthy(c) THEN Continue
  ELSE IF c.k = "number" /\ NumLT(SEC_MIN, c.n) /\ NumLT(c.n, MS_MIN)
       THEN NumV(NumMul(c.n, 1000))
  ELSE IF c.k = "number" /\ NumLE(MS_MIN, c.n) THEN c
  ELSE LET t == DateParse(c, legacy) IN
    IF t.k # "NaN" THEN t ELSE Continue

RECURSIVE scanCandidates(_, _, _)
scanCandidates(cs, i, legacy) ==
  IF i > Len(cs) THEN Null
  ELSE LET r == classifyCandidate(cs[i], legacy) IN
    IF r = Continue THEN scanCandidates(cs, i + 1, legacy) ELSE r

getWatchedAt(x, legacy) == scanCandidates(candidates(x), 1, legacy)

(***************************************************************************)
(* The environment.  A variable of process.env is Unset or a string, kept   *)
(* as its sequence of characters.                                           *)
(***************************************************************************)
Unset == <<>>

Variants == {"jellyfin", "tautulli", "plex"}

MkEnv(variant, url, secret, user, db, plexUrl, plexToken, tz, legacy) ==
  [ variant |-> variant,
    JELLYFIN_URL |-> IF variant = "jellyfin" THEN url ELSE Unset,
    JELLYFIN_TOKEN |-> IF variant = "jellyfin" THEN secret ELSE Unset,
    JELLYFIN_USER_ID |-> IF variant = "jellyfin" THEN user ELSE Unset,
    JELLYFIN_DB_PATH |-> IF variant = "jellyfin" THEN db ELSE Unset,
    TAUTULLI_URL |-> IF variant # "jellyfin" THEN url ELSE Unset,
    TAUTULLI_KEY |-> IF variant # "jellyfin" THEN secret ELSE Unset,
    PLEX_URL |-> IF variant = "plex" THEN plexUrl ELSE Unset,
    PLEX_TOKEN |-> IF variant = "plex" THEN plexToken ELSE Unset,
    tz |-> tz,
    legacy |-> legacy ]

\* !!(JELLYFIN_URL && JELLYFIN_TOKEN && JELLYFIN_USER_ID)
hasJellyfinEnv(e) ==
  e.JELLYFIN_URL # Unset /\ e.JELLYFIN_TOKEN # Unset /\ e.JELLYFIN_USER_ID # Unset

\* !!(TAUTULLI_URL && TAUTULLI_KEY)
hasTautulliEnv(e) == e.TAUTULLI_URL # Unset /\ e.TAUTULLI_KEY # Unset

\* !!(PLEX_URL && PLEX_TOKEN)
hasPlexEnv(e) == e.PLEX_URL # Unset /\ e.PLEX_TOKEN # Unset

(***************************************************************************)
(* Raw upstream records: every field a handler reads, Undefined when the    *)
(* upstream left it out.                                                    *)
(***************************************************************************)
HistoryFields ==
  {CandidateFields[i] : i \in 1..Len(CandidateFields)}
    \cup {"title", "added_at", "thumb", "thumb_url", "parent_thumb"}

\* a title is a string, "" when the upstream left it out
BlankRecord ==
  [f \in HistoryFields |->
     IF f \in {"thumb", "thumb_url", "parent_thumb"} THEN Unset
     ELSE IF f = "title" THEN "" ELSE Undefined]

\* the record whose candidate fields s, s+1, ... hold vals and nothing else
WindowRecord(s, vals) ==
  [f \in HistoryFields |->
     IF \E i \in 1..Len(vals) : CandidateFields[s + i - 1] = f
     THEN vals[CHOOSE i \in 1..Len(vals) : CandidateFields[s + i - 1] = f]
     ELSE BlankRecord[f]]

\* the helper call under study has not returned yet
NotReturned == [done |-> FALSE]

Returned(v) == [done |-> TRUE, v |-> v]

(***************************************************************************)
(* Timestamp extraction on sampled records.                                 *)
(***************************************************************************)
MaxSetFields == 2

SampleNums ==
  { Num(0, 5), Num(0, 99999), Num(1, 0), Num(1, 1), Num(17000, 0),
    Num(99999, 99998), Num(99999, 99999), Num(100000, 0), Num(17000000, 0) }

SampleValues ==
  { Undefined, Null, NumV(Zero), StrV("empty", Zero), StrV("text", Zero),
    StrV("iso", Num(17000000, 0)), StrV("digits", Num(17000, 0)) }
    \cup { NumV(n) : n \in SampleNums }

RECURSIVE Tuples(_, _)
Tuples(S, n) ==
  IF n = 0 THEN {<<>>}
  ELSE { <<v>> \o t : v \in S, t \in Tuples(S, n - 1) }

WatchedInputs ==
  { WindowRecord(s, vals) :
      s \in 1..(Len(CandidateFields) - MaxSetFields + 1),
      vals \in Tuples(SampleValues, MaxSetFields) }

ExtractEnvs ==
  { MkEnv("plex", <<"h">>, <<"K">>, Unset, Unset, <<"p">>, <<"T">>, 0, l) :
      l \in LegacyOutcomes }

IdleServer ==
  /\ now = Num(17000000, 0)
  /\ cache = << >>
  /\ reqs = << >>

ExtractInit ==
  /\ env \in ExtractEnvs
  /\ IdleServer
  /\ arg \in { [fn |-> "getWatchedAt", x |-> x] : x \in WatchedInputs }
  /\ ret = NotReturned

CallGetWatchedAt ==
  /\ arg.fn = "getWatchedAt" /\ ~ret.done
  /\ ret' = Returned(getWatchedAt(arg.x, env.legacy))
  /\ UNCHANGED <<env, now, cache, reqs, arg>>

ExtractNext == CallGetWatchedAt

SpecExtract == ExtractInit /\ [][ExtractNext]_vars

\* the candidate the scan classifies first: every candidate before it is
\* empty (falsy) or text that no date parser reads
FirstClassified(x) ==
  LET cs == candidates(x)
      live == { i \in 1..Len(cs) : Truthy(cs[i]) /\ ~(cs[i].k = "string" /\ cs[i].form = "text") }
  IN IF live = {} THEN Undefined
     ELSE cs[CHOOSE i \in live : \A j \in live : i <= j]

RECURSIVE Flatten(_)
Flatten(ss) == IF ss = <<>> THEN <<>> ELSE Head(ss) \o Flatten(Tail(ss))

\* encodeURIComponent on one character: letters, digits and - _ . ! ~ * ' ( )
\* pass, every other character becomes its percent escape
encodeChar(ch) ==
  CASE ch = "/" -> <<"%", "2", "F">>
    [] ch = ":" -> <<"%", "3", "A">>
    [] ch = "?" -> <<"%", "3", "F">>
    [] ch = "=" -> <<"%", "3", "D">>
    [] ch = "&" -> <<"%", "2", "6">>
    [] ch = "%" -> <<"%", "2", "5">>
    [] ch = "+" -> <<"%", "2", "B">>
    [] OTHER -> <<ch>>

encodeURIComponent(str) == Flatten([i \in 1..Len(str) |-> encodeChar(str[i])])

startsWith(str, p) == Len(str) >= Len(p) /\ SubSeq(str, 1, Len(p)) = p

includes(str, sub) ==
  \E i \in 1..(Len(str) - Len(sub) + 1) : SubSeq(str, i, i + Len(sub) - 1) = sub

\* a poster of null
NoPoster == <<"null">>

IMG_PREFIX == <<"/", "a", "p", "i", "/", "m", "e", "d", "i", "a", "/", "i", "m", "g", "?", "u", "=">>

AUTH_JELLYFIN == <<"&", "a", "u", "t", "h", "=", "j", "e", "l", "l", "y", "f", "i", "n">>

HTTP == <<"h", "t", "t", "p">>

SLASH == <<"/">>

\* posterFromJellyfin(item), jellyfin variant
posterFromJellyfin(e, item) ==
  IF ~hasJellyfinEnv(e) THEN NoPoster
  ELSE LET imageId == IF item.Primary # Unset THEN item.Primary ELSE item.Thumb IN
    IF imageId # Unset /\ item.Id # Unset
    THEN LET jellyfinUrl == e.JELLYFIN_URL \o <<"/", "I", "t", "e", "m", "s", "/">> \o item.Id
                              \o <<"/", "I", "m", "a", "g", "e", "s", "/", "P", "r", "i", "m", "a", "r", "y", "?", "h", "e", "i", "g", "h", "t", "=", "4", "5", "0", "&", "w", "i", "d", "t", "h", "=", "3", "0", "0", "&", "q", "u", "a", "l", "i", "t", "y", "=", "9", "6", "&", "t", "a", "g", "=">> \o imageId
         IN IMG_PREFIX \o encodeURIComponent(jellyfinUrl) \o AUTH_JELLYFIN
    ELSE NoPoster

\* posterFromTautulli(raw), tautulli variant
posterFromTautulli(e, raw) ==
  IF ~hasTautulliEnv(e) THEN NoPoster
  ELSE IF startsWith(raw.thumb_url, HTTP)
       THEN IMG_PREFIX \o encodeURIComponent(raw.thumb_url)
  ELSE IF startsWith(raw.thumb, SLASH)
       THEN LET u == e.TAUTULLI_URL \o <<"/", "p", "m", "s", "/", "i", "m", "a", "g", "e", "?", "u", "r", "l", "=">> \o encodeURIComponent(raw.thumb)
                       \o <<"&", "w", "i", "d", "t", "h", "=", "3", "0", "0", "&", "h", "e", "i", "g", "h", "t", "=", "4", "5", "0", "&", "f", "a", "l", "l", "b", "a", "c", "k", "=", "p", "o", "s", "t", "e", "r", "&", "a", "p", "i", "k", "e", "y", "=">> \o e.TAUTULLI_KEY
            IN IMG_PREFIX \o encodeURIComponent(u)
  ELSE NoPoster

\* posterFromTautulli(raw), plex variant
posterFromTautulliPlex(e, raw) ==
  IF ~hasPlexEnv(e) THEN NoPoster
  ELSE IF startsWith(raw.thumb_url, HTTP)
       THEN IMG_PREFIX \o encodeURIComponent(raw.thumb_url)
  ELSE IF startsWith(raw.thumb, SLASH)
       THEN LET plexUrl == e.PLEX_URL \o raw.thumb \o <<"?", "w", "i", "d", "t", "h", "=", "3", "0", "0", "&", "h", "e", "i", "g", "h", "t", "=", "4", "5", "0", "&", "X", "-", "P", "l", "e", "x", "-", "T", "o", "k", "e", "n", "=">> \o e.PLEX_TOKEN
            IN IMG_PREFIX \o encodeURIComponent(plexUrl)
  ELSE NoPoster

\* the poster builder of the variant the process runs
poster(e, raw) ==
  CASE e.variant = "jellyfin" -> posterFromJellyfin(e, raw)
    [] e.variant = "tautulli" -> posterFromTautulli(e, raw)
    [] e.variant = "plex" -> posterFromTautulliPlex(e, raw)


(***************************************************************************)
(* The poster builders on sampled environments and records.  The secrets    *)
(* are made of characters that occur in no URL, path or template, so that a *)
(* secret found in a poster was put there by the builder.                   *)
(***************************************************************************)
SampleSecrets == { <<"S", "K">>, <<"S", "&", "K">> }

SampleBaseUrl == <<"h", "t", "t", "p", ":", "/", "/", "m", ":", "8", "0">>

SampleThumbUrls == { Unset, <<"h", "t", "t", "p", ":", "/", "/", "c", "/", "i", "?", "w", "=", "1">>, <<"f", "t", "p", ":", "/", "/", "c">> }

SampleThumbs == { Unset, <<"/", "l", "/", "m", "/", "1">>, <<"l", "/", "m">> }

SampleIds == { Unset, <<"7">> }

SampleTags == { Unset, <<"a", "b">> }

PosterEnvs ==
  { MkEnv(v, SampleBaseUrl, s, <<"u">>, Unset, SampleBaseUrl, t, 0, "NaN") :
      v \in Variants, s \in SampleSecrets \cup {Unset}, t \in SampleSecrets \cup {Unset} }

\* the records the variant's builder is given
PosterInputs(e) ==
  IF e.variant = "jellyfin"
  THEN { [Id |-> i, Primary |-> p, Thumb |-> t] :
           i \in SampleIds, p \in SampleTags, t \in SampleTags }
  ELSE { [BlankRecord EXCEPT !.thumb_url = u, !.thumb = t] :
           u \in SampleThumbUrls, t \in SampleThumbs }

PosterInit ==
  /\ env \in PosterEnvs
  /\ IdleServer
  /\ arg \in { [fn |-> "poster", x |-> x] : x \in PosterInputs(env) }
  /\ ret = NotReturned

CallPoster ==
  /\ arg.fn = "poster" /\ ~ret.done
  /\ ret' = Returned(poster(env, arg.x))
  /\ UNCHANGED <<env, now, cache, reqs, arg>>

PosterNext == CallPoster

SpecPoster == PosterInit /\ [][PosterNext]_vars

Credentials(e) == {e.JELLYFIN_TOKEN, e.TAUTULLI_KEY, e.PLEX_TOKEN} \ {Unset}

\* C1: the poster a builder returns holds no credential of the environment,
\* neither as it is nor URL-encoded
C1_NoCredentialInPoster ==
  (ret.done /\ arg.fn = "poster" /\ ret.v # NoPoster) =>
    \A c \in Credentials(env) :
      ~includes(ret.v, c) /\ ~includes(ret.v, encodeURIComponent(c))


(***************************************************************************)
(* Time buckets.                                                            *)
(***************************************************************************)
\* 1000 * 60 * 60
HOUR_MS == NumMul(NumMul(FromInt(1000), 60), 60)

\* 1000 * 60 * 60 * 24
DAY_MS == NumMul(HOUR_MS, 24)

\* the local wall clock of instant t, in whole hours since the epoch
localHours(t, tz) == NumFloorDiv(t, HOUR_MS) + tz

\* Date.prototype.getDay: 0 = Sunday; 1 January 1970 was a Thursday
getDay(t, tz) == ((localHours(t, tz) \div 24) + 4) % 7

\* Date.prototype.getHours
getHours(t, tz) == localHours(t, tz) % 24

days == <<"Mon", "Tue", "Wed", "Thu", "Fri", "Sat", "Sun">>

timeBlocks == <<"00-03", "03-06", "06-09", "09-12", "12-15", "15-18", "18-21", "21-24">>

\* the key `${day}_${block}`
weekKey(day, block) == <<day, block>>

WeekKeys == { weekKey(days[d], timeBlocks[b]) : d \in 1..Len(days), b \in 1..Len(timeBlocks) }

MONTH_DAYS == 30

\* the key `day_${i}`, kept as i
MonthKeys == 1..MONTH_DAYS

\* the grid with every bucket 0
createEmptyWeeklyData == [key \in WeekKeys |-> 0]

createEmptyMonthlyData == [key \in MonthKeys |-> 0]

\* an object with no key
EmptyObject == << >>

\* data[key] = (data[key] || 0) + 1
bump(data, key) ==
  IF key \in DOMAIN data THEN [data EXCEPT ![key] = @ + 1]
  ELSE [k \in DOMAIN data \cup {key} |-> IF k = key THEN 1 ELSE data[k]]

\* if (data[key] !== undefined) data[key]++
bumpIfPresent(data, key) ==
  IF key \in DOMAIN data THEN [data EXCEPT ![key] = @ + 1] ELSE data

\* the key of the week grid an instant falls in
weekKeyOf(t, tz) ==
  LET dayOfWeek == getDay(t, tz)
      dayIndex == IF dayOfWeek = 0 THEN 6 ELSE dayOfWeek - 1
      blockIndex == getHours(t, tz) \div 3
  IN weekKey(days[dayIndex + 1], timeBlocks[blockIndex + 1])

\* buildWeeklyActivityData(events), jellyfin variant; an event is its instant
RECURSIVE weeklyLoop(_, _, _)
weeklyLoop(data, events, tz) ==
  IF events = <<>> THEN data
  ELSE weeklyLoop(bumpIfPresent(data, weekKeyOf(Head(events), tz)), Tail(events), tz)

buildWeeklyActivityData(events, tz) == weeklyLoop(createEmptyWeeklyData, events, tz)

\* the loop's turn with the day keys counted from the other end
monthlyStepReversed(data, t, nowMs) ==
  LET diffDays == NumFloorDiv(NumSub(nowMs, t), DAY_MS) IN
    IF diffDays >= 0 /\ diffDays < 30
    THEN bumpIfPresent(data, diffDays + 1)
    ELSE data

\* one turn of the loop of buildMonthlyActivityData
monthlyStep(data, t, nowMs) ==
  LET diffDays == NumFloorDiv(NumSub(nowMs, t), DAY_MS) IN
    IF diffDays >= 0 /\ diffDays < 30
    THEN bumpIfPresent(data, 30 - diffDays)
    ELSE data

RECURSIVE monthlyLoop(_, _, _)
monthlyLoop(data, events, nowMs) ==
  IF events = <<>> THEN data
  ELSE monthlyLoop(monthlyStep(data, Head(events), nowMs), Tail(events), nowMs)

\* buildMonthlyActivityData(events), jellyfin variant; now is the clock it reads
buildMonthlyActivityData(events, nowMs) ==
  monthlyLoop(createEmptyMonthlyData, events, nowMs)

\* one turn of the loop of the plex variant's /activity/weekly handler
weekHistoryStep(data, x, nowMs, tz, legacy) ==
  LET t == getWatchedAt(x, legacy)
      weekAgo == NumSub(nowMs, NumMul(DAY_MS, 7))
  IN IF ~Truthy(t) \/ NumLT(t.n, weekAgo) THEN data
     ELSE bump(data, weekKeyOf(t.n, tz))

RECURSIVE weekHistoryLoop(_, _, _, _, _)
weekHistoryLoop(data, list, nowMs, tz, legacy) ==
  IF list = <<>> THEN data
  ELSE weekHistoryLoop(weekHistoryStep(data, Head(list), nowMs, tz, legacy),
                       Tail(list), nowMs, tz, legacy)

\* one turn of the loop of the plex variant's /activity/monthly handler
monthHistoryStep(data, x, nowMs, legacy) ==
  LET t == getWatchedAt(x, legacy)
      monthAgo == NumSub(nowMs, NumMul(DAY_MS, 30))
  IN IF ~Truthy(t) \/ NumLT(t.n, monthAgo) THEN data
     ELSE LET daysAgo == NumFloorDiv(NumSub(nowMs, t.n), DAY_MS) IN
       IF daysAgo < 30 THEN bump(data, 30 - daysAgo) ELSE data

RECURSIVE monthHistoryLoop(_, _, _, _)
monthHistoryLoop(data, list, nowMs, legacy) ==
  IF list = <<>> THEN data
  ELSE monthHistoryLoop(monthHistoryStep(data, Head(list), nowMs, legacy),
                        Tail(list), nowMs, legacy)


(***************************************************************************)
(* Monthly bucketing on sampled event lists: the jellyfin variant's         *)
(* buildMonthlyActivityData and the loop of the plex variant's handler.     *)
(***************************************************************************)
MaxEvents == 2

SampleNows == { Num(17000000, 0), Num(17000000, 4321) }

ONE_MS == FromInt(1)

\* instants around the edges of the 30-day window that ends at nowMs
SampleInstants(nowMs) ==
  { nowMs,
    NumSub(nowMs, NumMul(DAY_MS, 5)),
    NumSub(nowMs, NumSub(NumMul(DAY_MS, 6), ONE_MS)),
    NumSub(nowMs, NumMul(DAY_MS, 29)),
    NumSub(nowMs, NumSub(NumMul(DAY_MS, 30), ONE_MS)),
    NumSub(nowMs, NumMul(DAY_MS, 30)),
    NumSub(nowMs, NumMul(DAY_MS, 31)),
    NumAdd(nowMs, ONE_MS),
    NumAdd(nowMs, NumMul(DAY_MS, 2)) }

RECURSIVE SeqsUpTo(_, _)
SeqsUpTo(S, n) == IF n = 0 THEN {<<>>} ELSE Tuples(S, n) \cup SeqsUpTo(S, n - 1)

\* a history record of the upstream with the instant t as its date, in
\* milliseconds; with Null, a record with no timestamp field at all
historyRecord(t) == IF t = Null THEN BlankRecord ELSE [BlankRecord EXCEPT !.date = t]

historyList(events) == [i \in 1..Len(events) |-> historyRecord(events[i])]

\* the rows the database gave, as the Dates getPlaybackEvents makes of them
dateList(events) == [i \in 1..Len(events) |-> events[i].n]

MonthlyEnvs ==
  { MkEnv(v, SampleBaseUrl, <<"S", "K">>, <<"u">>, <<"d">>, SampleBaseUrl, <<"S", "K">>, 0, "NaN") :
      v \in {"jellyfin", "plex"} }

\* the jellyfin variant's events are rows with a valid date; the plex
\* variant's history may hold records with no timestamp
MonthlyInputs(e, nowMs) ==
  LET stamps == { NumV(t) : t \in SampleInstants(nowMs) } IN
    SeqsUpTo(IF e.variant = "jellyfin" THEN stamps ELSE stamps \cup {Null}, MaxEvents)

MonthlyInit ==
  /\ env \in MonthlyEnvs
  /\ now \in SampleNows
  /\ cache = << >>
  /\ reqs = << >>
  /\ arg \in { [fn |-> "monthly", events |-> ev] : ev \in MonthlyInputs(env, now) }
  /\ ret = NotReturned

CallBuildMonthly ==
  /\ arg.fn = "monthly" /\ ~ret.done /\ env.variant = "jellyfin"
  /\ ret' = Returned(buildMonthlyActivityData(dateList(arg.events), now))
  /\ UNCHANGED <<env, now, cache, reqs, arg>>

CallMonthHistory ==
  /\ arg.fn = "monthly" /\ ~ret.done /\ env.variant = "plex"
  /\ ret' = Returned(monthHistoryLoop(createEmptyMonthlyData, historyList(arg.events),
                                      now, env.legacy))
  /\ UNCHANGED <<env, now, cache, reqs, arg>>

MonthlyNext == CallBuildMonthly \/ CallMonthHistory

SpecMonthly == MonthlyInit /\ [][MonthlyNext]_vars

\* floor((nowMs - t) / 86400000) = d, said without a division
AgedDays(t, nowMs, d) ==
  /\ NumLT(NumSub(nowMs, NumMul(DAY_MS, d + 1)), t)
  /\ NumLE(t, NumSub(nowMs, NumMul(DAY_MS, d)))

\* the events of the list that are d days old
EventsAged(events, nowMs, d) ==
  { i \in 1..Len(events) : events[i] # Null /\ AgedDays(events[i].n, nowMs, d) }

RECURSIVE SumOver(_, _)
SumOver(f, S) ==
  IF S = {} THEN 0
  ELSE LET k == CHOOSE k \in S : TRUE IN f[k] + SumOver(f, S \ {k})

C4_OnlyWindowCounted ==
  (ret.done /\ arg.fn = "monthly") =>
    SumOver(ret.v, DOMAIN ret.v) =
      Cardinality(UNION { EventsAged(arg.events, now, d) : d \in 0..29 })


(***************************************************************************)
(* List assembly: what the recently-watched and recently-added handlers do  *)
(* with the list the upstream returned.                                     *)
(***************************************************************************)
\* a limit is Number(req.query.limit || dflt): an integer, or NaN
IntLimit(n) == [nan |-> FALSE, n |-> n]

NaNLimit == [nan |-> TRUE, n |-> 0]

\* items.length >= limit
reached(len, limit) == ~limit.nan /\ len >= limit.n

\* (v || 0) of a timestamp that is a number, null or NaN
orZero(v) == IF Truthy(v) THEN v.n ELSE Zero

\* Array.prototype.sort with the comparator (a, b) => (b[f]||0) - (a[f]||0):
\* stable, greatest key first
RECURSIVE insertDesc(_, _, _)
insertDesc(sorted, it, f) ==
  IF sorted = <<>> THEN <<it>>
  ELSE IF NumLT(orZero(Head(sorted)[f]), orZero(it[f])) THEN <<it>> \o sorted
  ELSE <<Head(sorted)>> \o insertDesc(Tail(sorted), it, f)

RECURSIVE sortDesc(_, _)
sortDesc(items, f) ==
  IF items = <<>> THEN <<>>
  ELSE insertDesc(sortDesc(SubSeq(items, 1, Len(items) - 1), f), items[Len(items)], f)

\* x.title || ... || 'Unknown'
titleOf(x) == IF x.title # "" THEN x.title ELSE "Unknown"

\* the item pushed for a history record, tautulli and plex variants
watchedItem(e, x) ==
  [ title |-> titleOf(x),
    watched_at |-> getWatchedAt(x, e.legacy),
    poster |-> poster(e, x) ]

\* the loop over the history list, with its break at the limit
RECURSIVE watchedLoop(_, _, _, _)
watchedLoop(e, items, list, limit) ==
  IF list = <<>> THEN items
  ELSE LET pushed == Append(items, watchedItem(e, Head(list))) IN
    IF reached(Len(pushed), limit) THEN pushed
    ELSE watchedLoop(e, pushed, Tail(list), limit)

\* /recently-watched after the fetch, tautulli and plex variants
assembleWatched(e, list, limit) == sortDesc(watchedLoop(e, <<>>, list, limit), "watched_at")

\* parseInt(str): the leading digits; the sampled ISO strings start with 2023
parseInt(c) ==
  IF c.form = "digits" THEN NumV(c.n)
  ELSE IF c.form = "iso" THEN NumV(FromInt(2023))
  ELSE NaN

\* number * 1000, NaN staying NaN
times1000(v) == IF v.k = "NaN" THEN NaN ELSE NumV(NumMul(v.n, 1000))

\* the added timestamp of a recently_added record, plex variant
addedAt(x, nowMs) ==
  LET raw == x.added_at
      added == IF raw.k = "string" THEN times1000(parseInt(raw))
               ELSE IF raw.k = "number" /\ NumLT(raw.n, MS_MIN) THEN times1000(raw)
               ELSE raw
  IN IF ~Truthy(added) THEN NumV(nowMs) ELSE added

\* a || b of two posters
orPoster(a, b) == IF a # NoPoster THEN a ELSE b

addedItem(e, x, nowMs) ==
  [ title |-> titleOf(x),
    added_at |-> addedAt(x, nowMs),
    poster |-> orPoster(poster(e, [BlankRecord EXCEPT !.thumb = x.thumb]),
                        poster(e, [BlankRecord EXCEPT !.thumb = x.parent_thumb])) ]

RECURSIVE addedLoop(_, _, _, _, _)
addedLoop(e, items, list, limit, nowMs) ==
  IF list = <<>> THEN items
  ELSE LET pushed == Append(items, addedItem(e, Head(list), nowMs)) IN
    IF reached(Len(pushed), limit) THEN pushed
    ELSE addedLoop(e, pushed, Tail(list), limit, nowMs)

\* /recently-added after the fetch, plex variant
assembleAdded(e, list, limit, nowMs) ==
  sortDesc(addedLoop(e, <<>>, list, limit, nowMs), "added_at")

\* new Date(v).getTime(): a string is parsed, a number is the time value
dateGetTime(v, legacy) ==
  IF v.k = "number" THEN v ELSE DateParse(v, legacy)

\* the item pushed for a Jellyfin item that has been played
jellyfinWatchedItem(e, item) ==
  [ title |-> IF item.Name # "" THEN item.Name ELSE "Unknown",
    watched_at |-> IF Truthy(item.LastPlayedDate)
                   THEN dateGetTime(item.LastPlayedDate, e.legacy) ELSE Null,
    poster |-> posterFromJellyfin(e, item) ]

RECURSIVE jellyfinWatchedLoop(_, _, _)
jellyfinWatchedLoop(e, items, list) ==
  IF list = <<>> THEN items
  ELSE IF ~Truthy(Head(list).LastPlayedDate)
       THEN jellyfinWatchedLoop(e, items, Tail(list))
  ELSE jellyfinWatchedLoop(e, Append(items, jellyfinWatchedItem(e, Head(list))), Tail(list))

\* /recently-watched after the fetch, jellyfin variant
assembleJellyfinWatched(e, list) == sortDesc(jellyfinWatchedLoop(e, <<>>, list), "watched_at")

jellyfinAddedItem(e, item, nowMs) ==
  [ title |-> IF item.Name # "" THEN item.Name ELSE "Unknown",
    added_at |-> IF Truthy(item.DateCreated)
                 THEN dateGetTime(item.DateCreated, e.legacy) ELSE NumV(nowMs),
    poster |-> posterFromJellyfin(e, item) ]

\* /recently-added after the fetch, jellyfin variant
assembleJellyfinAdded(e, list, nowMs) ==
  sortDesc([i \in 1..Len(list) |-> jellyfinAddedItem(e, list[i], nowMs)], "added_at")


(***************************************************************************)
(* List assembly on sampled upstream lists.                                 *)
(***************************************************************************)
MaxList == 3

\* history / recently_added records of Tautulli: A and B carry timestamps in
\* epoch seconds, C carries none, D carries a date before 1970
SampleRecords ==
  { [BlankRecord EXCEPT !.title = "A", !.date = NumV(Num(17000, 0)),
                        !.added_at = NumV(Num(16000, 0)), !.thumb = <<"/", "l", "/", "m", "/", "1">>],
    [BlankRecord EXCEPT !.title = "B", !.started = NumV(Num(16990, 0)),
                        !.added_at = StrV("digits", Num(16500, 0))],
    [BlankRecord EXCEPT !.title = "C"],
    [BlankRecord EXCEPT !.title = "D", !.date = StrV("iso", Num(-1, 0)),
                        !.added_at = NumV(Num(16900, 5))] }

JellyfinItem(name, id, tag, played, created) ==
  [ Name |-> name, Id |-> id, Primary |-> tag, Thumb |-> Unset,
    LastPlayedDate |-> played, DateCreated |-> created ]

SampleItems ==
  { JellyfinItem("A", <<"7">>, <<"a", "b">>, StrV("iso", Num(16999000, 0)), StrV("iso", Num(16000000, 0))),
    JellyfinItem("B", <<"8">>, Unset, StrV("iso", Num(16990000, 0)), StrV("iso", Num(16500000, 0))),
    JellyfinItem("C", <<"9">>, Unset, Undefined, Undefined),
    JellyfinItem("D", Unset, Unset, StrV("iso", Num(-1, 0)), StrV("iso", Num(16900000, 5))) }

\* the sequences of up to n members of S, none twice
DistinctSeqs(S, n) ==
  { q \in SeqsUpTo(S, n) : \A i, j \in 1..Len(q) : i # j => q[i] # q[j] }

SampleLimits == { IntLimit(0), IntLimit(1), IntLimit(2), IntLimit(10), IntLimit(12), NaNLimit }

ListEnvs ==
  { MkEnv(v, SampleBaseUrl, <<"S", "K">>, <<"u">>, Unset, SampleBaseUrl, <<"S", "K">>, 0, l) :
      v \in Variants, l \in LegacyOutcomes }

\* the list endpoints of a variant
ListEndpoints(e) == IF e.variant = "tautulli" THEN {"watched"} ELSE {"watched", "added"}

\* Jellyfin is asked for Limit=limit items and returns no more; Tautulli is
\* asked for max(50, limit*3) or max(30, limit*2) and may return more than limit
ListInputs(e) ==
  IF e.variant = "jellyfin"
  THEN { [fn |-> "list", ep |-> ep, list |-> q, limit |-> lim] :
           ep \in ListEndpoints(e), q \in DistinctSeqs(SampleItems, MaxList),
           lim \in { l \in SampleLimits : ~l.nan /\ l.n >= MaxList } }
  ELSE { [fn |-> "list", ep |-> ep, list |-> q, limit |-> lim] :
           ep \in ListEndpoints(e), q \in DistinctSeqs(SampleRecords, MaxList),
           lim \in SampleLimits }

ListInit ==
  /\ env \in ListEnvs
  /\ IdleServer
  /\ arg \in ListInputs(env)
  /\ ret = NotReturned

CallAssembleWatched ==
  /\ arg.fn = "list" /\ ~ret.done /\ arg.ep = "watched" /\ env.variant # "jellyfin"
  /\ ret' = Returned(assembleWatched(env, arg.list, arg.limit))
  /\ UNCHANGED <<env, now, cache, reqs, arg>>

CallAssembleAdded ==
  /\ arg.fn = "list" /\ ~ret.done /\ arg.ep = "added" /\ env.variant = "plex"
  /\ ret' = Returned(assembleAdded(env, arg.list, arg.limit, now))
  /\ UNCHANGED <<env, now, cache, reqs, arg>>

CallAssembleJellyfinWatched ==
  /\ arg.fn = "list" /\ ~ret.done /\ arg.ep = "watched" /\ env.variant = "jellyfin"
  /\ ret' = Returned(assembleJellyfinWatched(env, arg.list))
  /\ UNCHANGED <<env, now, cache, reqs, arg>>

CallAssembleJellyfinAdded ==
  /\ arg.fn = "list" /\ ~ret.done /\ arg.ep = "added" /\ env.variant = "jellyfin"
  /\ ret' = Returned(assembleJellyfinAdded(env, arg.list, now))
  /\ UNCHANGED <<env, now, cache, reqs, arg>>

ListNext ==
  \/ CallAssembleWatched
  \/ CallAssembleAdded
  \/ CallAssembleJellyfinWatched
  \/ CallAssembleJellyfinAdded

SpecList == ListInit /\ [][ListNext]_vars

\* the timestamp field of the items of an endpoint
atField(ep) == IF ep = "watched" THEN "watched_at" ELSE "added_at"

\* the title a record is listed under
recordTitle(e, x) == IF e.variant = "jellyfin" THEN x.Name ELSE x.title

\* the record lacks every field its timestamp is read from
LacksTimestamp(e, ep, x) ==
  IF e.variant = "jellyfin"
  THEN (IF ep = "watched" THEN x.LastPlayedDate ELSE x.DateCreated) = Undefined
  ELSE IF ep = "watched" THEN \A i \in 1..Len(CandidateFields) : x[CandidateFields[i]] = Undefined
  ELSE x.added_at = Undefined

\* the record of the input list an item was made from
RecordOf(e, list, it) == list[CHOOSE i \in 1..Len(list) : recordTitle(e, list[i]) = it.title]

\* C6: a record with no timestamp field gets the timestamp null and is listed
\* after every record that has one
C6_UntimedSortLast ==
  (ret.done /\ arg.fn = "list") =>
    \A i \in 1..Len(ret.v) :
      LacksTimestamp(env, arg.ep, RecordOf(env, arg.list, ret.v[i])) =>
        /\ ret.v[i][atField(arg.ep)] = Null
        /\ \A j \in 1..Len(ret.v) :
             ~LacksTimestamp(env, arg.ep, RecordOf(env, arg.list, ret.v[j])) => j < i

\* the least of two numbers
Min(a, b) == IF a < b THEN a ELSE b

\* every record of the list has a timestamp
AllTimed(e, ep, list) == \A i \in 1..Len(list) : ~LacksTimestamp(e, ep, list[i])

\* C7: of n records with distinct timestamps exactly min(limit, n) are
\* returned, newest first
C7_TruncatedToLimit ==
  (ret.done /\ arg.fn = "list" /\ ~arg.limit.nan /\ AllTimed(env, arg.ep, arg.list)) =>
    /\ Len(ret.v) = Min(arg.limit.n, Len(arg.list))
    /\ \A i \in 1..(Len(ret.v) - 1) :
         NumLT(orZero(ret.v[i + 1][atField(arg.ep)]), orZero(ret.v[i][atField(arg.ep)]))


(***************************************************************************)
(* The tiny cache.                                                          *)
(***************************************************************************)
\* getC found nothing to return
NoHit == [hit |-> FALSE]

Hit(data) == [hit |-> TRUE, data |-> data]

\* ttl(ms), read at the clock nowMs
ttl(ms, nowMs) == NumAdd(nowMs, ms)

\* a lookup that still serves the entry at the instant it expires
getCThroughDeadline(c, k, nowMs) ==
  IF k \in DOMAIN c /\ NumLE(nowMs, c[k].t) THEN Hit(c[k].data) ELSE NoHit

\* getC(k): (v && v.t > Date.now()) ? v.data : null
getC(c, k, nowMs) ==
  IF k \in DOMAIN c /\ NumLT(nowMs, c[k].t) THEN Hit(c[k].data) ELSE NoHit

\* a write that keeps the entry a key already has
setCUnlessPresent(c, k, data, ms, nowMs) ==
  IF k \in DOMAIN c THEN c
  ELSE [x \in DOMAIN c \cup {k} |-> IF x = k THEN [data |-> data, t |-> ttl(ms, nowMs)] ELSE c[x]]

\* a write that drops the entries of the other keys
setCEvicting(c, k, data, ms, nowMs) ==
  [x \in {k} |-> [data |-> data, t |-> ttl(ms, nowMs)]]

\* setC(k, data, ms): cache.set(k, { data, ...ttl(ms) })
setC(c, k, data, ms, nowMs) ==
  [x \in DOMAIN c \cup {k} |->
     IF x = k THEN [data |-> data, t |-> ttl(ms, nowMs)] ELSE c[x]]

(***************************************************************************)
(* Outbound calls.  What the upstream does with a call is the outcome:      *)
(*   "ok"      it answers 2xx with a body, json                              *)
(*   "status"  it answers with another status                               *)
(*   "badjson" it answers 2xx with a body that is no JSON                   *)
(*   "error"   the connection fails                                         *)
(*   "timeout" the abort timer fires first                                  *)
(***************************************************************************)
OutcomeKinds == {"ok", "status", "badjson", "error", "timeout"}

Outcome(kind, json) == [kind |-> kind, json |-> json]

\* safeFetchJson: never throws, { ok: true, json } or { ok: false, error }
safeFetchJson(o) ==
  CASE o.kind = "ok" -> [ok |-> TRUE, json |-> o.json]
    [] o.kind = "status" -> [ok |-> FALSE, error |-> "404 Not Found"]
    [] o.kind = "badjson" -> [ok |-> FALSE, error |-> "invalid json response body"]
    [] o.kind = "error" -> [ok |-> FALSE, error |-> "connect ECONNREFUSED"]
    [] o.kind = "timeout" -> [ok |-> FALSE, error |-> "timeout after 1500ms"]

\* a JSON body is kept as the shape of the value at the place the handler
\* reads and the records in it
Json(shape, list) == [shape |-> shape, list |-> list]

\* arr(v): an array, { data: [...] }, or an object of records; else []
arr(v) == IF v.shape \in {"array", "wrapped", "object"} THEN v.list ELSE <<>>

(***************************************************************************)
(* Responses.                                                               *)
(***************************************************************************)
NoResp == [status |-> 0, kind |-> "none", body |-> << >>]

\* res.json(body), res.status(n).json(body)
JsonResp(status, body) == [status |-> status, kind |-> "json", body |-> body]

\* res.redirect(location)
RedirectResp(location) == [status |-> 302, kind |-> "redirect", body |-> [location |-> location]]

\* r.body.pipe(res)
StreamResp == [status |-> 200, kind |-> "stream", body |-> << >>]

PLACEHOLDER == "/placeholder-poster.jpg"

\* a cache key `${name}${param}`
Key(name, param) == <<name, param>>

\* `${limit}`
show(limit) == IF limit.nan THEN "NaN" ELSE ToString(limit.n)

\* Number(req.query.x || dflt): the parameter is absent, or a string
AbsentParam == [given |-> FALSE, value |-> NaNLimit]

GivenParam(limit) == [given |-> TRUE, value |-> limit]

numberOr(param, dflt) == IF param.given THEN param.value ELSE IntLimit(dflt)

(***************************************************************************)
(* The Playback Reporting database of the jellyfin variant.  A query of     *)
(* getPlaybackEvents throws (no such table or column) or returns rows; a    *)
(* row is the instant of its timestamp, or NaN when that is no date.        *)
(***************************************************************************)
Throws == [threw |-> TRUE, rows |-> <<>>]

Rows(rows) == [threw |-> FALSE, rows |-> rows]

NUM_QUERIES == 6

RECURSIVE validDates(_)
validDates(rows) ==
  IF rows = <<>> THEN <<>>
  ELSE IF Head(rows).k = "NaN" THEN validDates(Tail(rows))
  ELSE <<Head(rows).n>> \o validDates(Tail(rows))

RECURSIVE tryQueries(_, _)
tryQueries(db, i) ==
  IF i > NUM_QUERIES THEN <<>>
  ELSE IF db.queries[i].threw \/ db.queries[i].rows = <<>> THEN tryQueries(db, i + 1)
  ELSE validDates(db.queries[i].rows)

\* getPlaybackEvents(db, daysBack): the events, [] when nothing worked
getPlaybackEvents(db) == tryQueries(db, 1)

(***************************************************************************)
(* Daily activity, tautulli and plex variants.  A day is kept as its number *)
(* since the epoch, which its YYYY-MM-DD string names.                      *)
(***************************************************************************)
\* d.setHours(0,0,0,0); d.toISOString().slice(0,10): the UTC date of the
\* local midnight before instant t, moved back by back days
isoDayOfLocalMidnight(t, tz, back) ==
  ((((localHours(t, tz) \div 24) * 24) - tz) \div 24) - back

\* the seeded buckets, oldest day first
seedDays(nowMs, tz, n) ==
  IF n.nan \/ n.n < 1 THEN <<>>
  ELSE [i \in 1..n.n |-> isoDayOfLocalMidnight(nowMs, tz, n.n - i)]

RECURSIVE dailyCount(_, _, _, _)
dailyCount(list, day, tz, legacy) ==
  IF list = <<>> THEN 0
  ELSE LET t == getWatchedAt(Head(list), legacy) IN
    (IF Truthy(t) /\ isoDayOfLocalMidnight(t.n, tz, 0) = day THEN 1 ELSE 0)
      + dailyCount(Tail(list), day, tz, legacy)

\* the payload { days, counts } of /activity/daily
dailyPayload(e, list, n, nowMs) ==
  LET outDays == seedDays(nowMs, e.tz, n) IN
    [ days |-> outDays,
      counts |-> [i \in 1..Len(outDays) |-> dailyCount(list, outDays[i], e.tz, e.legacy)] ]


(***************************************************************************)
(* The route handlers.  A handler runs from the request to its first await  *)
(* (begin) and from the upstream's outcome to the response (finish); the    *)
(* jellyfin variant's activity handlers read the database synchronously and *)
(* have no await.                                                           *)
(***************************************************************************)
NoKey == Key("", "")

NoOut == [url |-> "", auth |-> Unset]

\* the handler responded without an outbound call, at the return named path
Done(path, resp, c) ==
  [next |-> "done", path |-> path, resp |-> resp, cache |-> c, key |-> NoKey, out |-> NoOut]

\* the handler awaits the outbound call out
Await(key, out, c) ==
  [next |-> "awaiting", path |-> "await", resp |-> NoResp, cache |-> c, key |-> key, out |-> out]

\* the handler responded after its outbound call, at the return named path
Sent(path, resp, c) == [path |-> path, resp |-> resp, cache |-> c]

TTL_SHORT == FromInt(15000)

TTL_LONG == FromInt(30000)

\* the cache key of a data endpoint
keyOf(e, ep, q) ==
  IF e.variant = "jellyfin"
  THEN CASE ep = "watched" -> Key("jellyfin-watched-", show(numberOr(q.limit, 12)))
         [] ep = "added" -> Key("jellyfin-added-", show(numberOr(q.limit, 10)))
         [] ep = "weekly" -> Key("jellyfin-activity-weekly", "")
         [] ep = "monthly" -> Key("jellyfin-activity-monthly", "")
  ELSE CASE ep = "watched" -> Key("watched-", show(numberOr(q.limit, 12)))
         [] ep = "added" -> Key("added-", show(numberOr(q.limit, 10)))
         [] ep = "daily" -> Key("activity-", show(numberOr(q.days, 7)))
         [] ep = "weekly" -> Key("activity-weekly", "")
         [] ep = "monthly" -> Key("activity-monthly", "")

\* the body sent when the backend is not configured
unconfiguredBody(e, ep) ==
  IF e.variant = "jellyfin" THEN [items |-> <<>>, warning |-> <<"jellyfin not configured">>]
  ELSE CASE ep \in {"watched", "added"} -> [items |-> <<>>, warning |-> <<"tautulli not configured">>]
         [] ep = "daily" -> [days |-> <<>>, counts |-> <<>>]
         [] ep \in {"weekly", "monthly"} -> [data |-> EmptyObject, warning |-> <<"tautulli not configured">>]

\* the body sent when safeFetchJson returned { ok: false, error }
failedBody(e, ep, error) ==
  IF e.variant = "jellyfin" THEN [items |-> <<>>, warning |-> <<"jellyfin: ", error>>]
  ELSE CASE ep \in {"watched", "added"} -> [items |-> <<>>, warning |-> <<"tautulli: ", error>>]
         [] ep = "daily" -> [days |-> <<>>, counts |-> <<>>, warning |-> <<"tautulli: ", error>>]
         [] ep = "weekly" -> [data |-> createEmptyWeeklyData, warning |-> <<"tautulli: ", error>>]
         [] ep = "monthly" -> [data |-> createEmptyMonthlyData, warning |-> <<"tautulli: ", error>>]

\* the payload built from the upstream's JSON, and how long it is cached
payloadOf(e, ep, q, json, nowMs) ==
  IF e.variant = "jellyfin"
  THEN LET list == IF json.shape = "none" THEN <<>> ELSE json.list IN
    CASE ep = "watched" -> [items |-> assembleJellyfinWatched(e, list)]
      [] ep = "added" -> [items |-> assembleJellyfinAdded(e, list, nowMs)]
  ELSE LET list == arr(json) IN
    CASE ep = "watched" -> [items |-> assembleWatched(e, list, numberOr(q.limit, 12))]
      [] ep = "added" -> [items |-> assembleAdded(e, list, numberOr(q.limit, 10), nowMs)]
      [] ep = "daily" -> dailyPayload(e, list, numberOr(q.days, 7), nowMs)
      [] ep = "weekly" ->
           [data |-> weekHistoryLoop(createEmptyWeeklyData, list, nowMs, e.tz, e.legacy)]
      [] ep = "monthly" ->
           [data |-> monthHistoryLoop(createEmptyMonthlyData, list, nowMs, e.legacy)]

ttlOf(ep) == IF ep \in {"watched", "daily"} THEN TTL_SHORT ELSE TTL_LONG

\* GET /img up to its fetch
imgBegin(e, q, c) ==
  IF q.u = "" THEN Done("missing-u", JsonResp(400, [error |-> <<"missing u">>]), c)
  ELSE Await(NoKey,
             [ url |-> q.u,
               auth |-> IF e.variant = "jellyfin" /\ q.auth = "jellyfin"
                        THEN e.JELLYFIN_TOKEN ELSE Unset ],
             c)

\* GET /img from the outcome of its fetch
imgFinish(e, o, c) ==
  IF o.kind \in {"ok", "badjson"} THEN Sent("piped", StreamResp, c)
  ELSE IF e.variant = "tautulli"
       THEN (IF o.kind = "status"
             THEN Sent("not-ok", JsonResp(502, [error |-> <<"upstream ", "404">>]), c)
             ELSE Sent("caught", JsonResp(500, [error |-> <<safeFetchJson(o).error>>]), c))
  ELSE Sent(IF o.kind = "status" THEN "not-ok" ELSE "caught", RedirectResp(PLACEHOLDER), c)

\* a handler that goes to the upstream without looking at the configuration
\* or the cache
fetchingBeginUnconditional(e, ep, q, c, nowMs) ==
  Await(keyOf(e, ep, q),
        [ url |-> IF e.variant = "jellyfin" THEN "jellyfin" ELSE "tautulli",
          auth |-> IF e.variant = "jellyfin" THEN e.JELLYFIN_TOKEN ELSE Unset ],
        c)

\* a data endpoint that fetches from the upstream, up to its await
fetchingBegin(e, ep, q, c, nowMs) ==
  LET configured == IF e.variant = "jellyfin" THEN hasJellyfinEnv(e) ELSE hasTautulliEnv(e) IN
    IF ~configured THEN Done("unconfigured", JsonResp(200, unconfiguredBody(e, ep)), c)
    ELSE LET key == keyOf(e, ep, q)
             hit == getC(c, key, nowMs)
         IN IF hit.hit THEN Done("hit", JsonResp(200, hit.data), c)
            ELSE Await(key,
                       [ url |-> IF e.variant = "jellyfin" THEN "jellyfin" ELSE "tautulli",
                         auth |-> IF e.variant = "jellyfin" THEN e.JELLYFIN_TOKEN ELSE Unset ],
                       c)

\* a data endpoint from the outcome of its fetch to the response
fetchingFinish(e, ep, q, key, o, c, nowMs) ==
  LET r == safeFetchJson(o) IN
    IF ~r.ok THEN Sent("failed", JsonResp(200, failedBody(e, ep, r.error)), c)
    ELSE LET payload == payloadOf(e, ep, q, r.json, nowMs) IN
      Sent("fetched", JsonResp(200, payload), setC(c, key, payload, ttlOf(ep), nowMs))

\* /activity/weekly and /activity/monthly of the jellyfin variant
databaseActivity(e, ep, db, c, nowMs) ==
  LET key == keyOf(e, ep, [limit |-> AbsentParam, days |-> AbsentParam])
      hit == getC(c, key, nowMs)
      emptyData == IF ep = "weekly" THEN createEmptyWeeklyData ELSE createEmptyMonthlyData
      cached(path, payload) ==
        Done(path, JsonResp(200, payload), setC(c, key, payload, TTL_LONG, nowMs))
  IN IF hit.hit THEN Done("hit", JsonResp(200, hit.data), c)
     ELSE IF e.JELLYFIN_DB_PATH = Unset
          THEN cached("no-db-path",
                      [data |-> emptyData, warning |-> <<"JELLYFIN_DB_PATH not configured">>])
     ELSE IF db.open = "throws"
          THEN cached("db-error",
                      [data |-> emptyData,
                       warning |-> <<"Database error: ", "Failed to open Jellyfin database">>])
     ELSE LET events == getPlaybackEvents(db) IN
       IF Len(events) = 0
       THEN cached("no-events",
                   [data |-> emptyData,
                    warning |-> <<"No playback events found in Jellyfin database">>])
       ELSE cached("built",
                   [data |-> IF ep = "weekly" THEN buildWeeklyActivityData(events, e.tz)
                             ELSE buildMonthlyActivityData(events, nowMs)])

\* the endpoints a variant serves
Endpoints(e) ==
  CASE e.variant = "jellyfin" -> {"img", "watched", "added", "weekly", "monthly"}
    [] e.variant = "tautulli" -> {"img", "watched", "daily"}
    [] e.variant = "plex" -> {"img", "watched", "daily", "added", "weekly", "monthly"}

\* the handler of ep up to its first await, or to its response
begin(e, ep, q, db, c, nowMs) ==
  IF ep = "img" THEN imgBegin(e, q, c)
  ELSE IF e.variant = "jellyfin" /\ ep \in {"weekly", "monthly"}
       THEN databaseActivity(e, ep, db, c, nowMs)
  ELSE fetchingBegin(e, ep, q, c, nowMs)

\* the handler of ep from the outcome of its outbound call
finish(e, ep, q, key, o, c, nowMs) ==
  IF ep = "img" THEN imgFinish(e, o, c)
  ELSE fetchingFinish(e, ep, q, key, o, c, nowMs)


(***************************************************************************)
(* The server: inbound requests, each running its handler, over the shared  *)
(* cache and the clock.                                                     *)
(***************************************************************************)
MaxRequests == 2

MaxTicks == 2

\* the clock moves in steps of the shorter TTL
TICK_MS == TTL_SHORT

ServerStart == Num(17000000, 0)

ServerEnvs ==
  { MkEnv(v, url, <<"S", "K">>, <<"u">>, db, SampleBaseUrl, <<"P", "T">>, 0, "NaN") :
      v \in Variants, url \in {Unset, SampleBaseUrl}, db \in {Unset, <<"d">>} }

\* the query string of a request
Query(limit, nDays, u, auth) == [limit |-> limit, days |-> nDays, u |-> u, auth |-> auth]

Queries(e, ep) ==
  CASE ep = "img" ->
         { Query(AbsentParam, AbsentParam, "", ""), Query(AbsentParam, AbsentParam, "elsewhere", "") }
           \cup (IF e.variant = "jellyfin"
                 THEN { Query(AbsentParam, AbsentParam, u, "jellyfin") : u \in {"backend", "elsewhere"} }
                 ELSE {})
    [] ep = "watched" ->
         { Query(l, AbsentParam, "", "") : l \in {AbsentParam, GivenParam(IntLimit(1))} }
    [] OTHER -> { Query(AbsentParam, AbsentParam, "", "") }

\* records of the upstream: one five days before the start, one two days
\* after it, one with no timestamp
ServerRecords ==
  << [BlankRecord EXCEPT !.title = "A", !.date = NumV(NumSub(ServerStart, NumMul(DAY_MS, 5))),
                         !.added_at = NumV(Num(16000, 0))],
     [BlankRecord EXCEPT !.title = "F", !.date = NumV(NumAdd(ServerStart, NumMul(DAY_MS, 2))),
                         !.added_at = NumV(Num(17002, 0))],
     [BlankRecord EXCEPT !.title = "C"] >>

ServerItems ==
  << JellyfinItem("A", <<"7">>, <<"a", "b">>, StrV("iso", Num(16999000, 0)), StrV("iso", Num(16000000, 0))),
     JellyfinItem("C", <<"9">>, Unset, Undefined, Undefined) >>

\* the body a 2xx answer of the upstream carries
ServerJson(e) ==
  IF e.variant = "jellyfin" THEN Json("array", ServerItems) ELSE Json("array", ServerRecords)

\* what the upstream may do with a call: answer 2xx, answer 404, not answer
Outcomes(e) ==
  { Outcome("ok", ServerJson(e)), Outcome("status", Json("none", <<>>)),
    Outcome("timeout", Json("none", <<>>)) }

\* what the database file may hold
Database(open, queries) == [open |-> open, queries |-> queries]

NoTable == [i \in 1..NUM_QUERIES |-> Throws]

ServerDatabases ==
  { Database("throws", NoTable),
    Database("ok", NoTable),
    Database("ok", [NoTable EXCEPT ![1] = Rows(<<>>),
                                   ![2] = Rows(<<NaN, NumV(NumSub(ServerStart, NumMul(DAY_MS, 5)))>>)]),
    Database("ok", [NoTable EXCEPT ![1] = Rows(<<NaN>>),
                                   ![2] = Rows(<<NumV(NumAdd(ServerStart, NumMul(DAY_MS, 2)))>>)]) }

\* only the jellyfin variant's activity handlers read the database
Databases(e, ep) ==
  IF e.variant = "jellyfin" /\ ep \in {"weekly", "monthly"}
  THEN ServerDatabases ELSE {Database("throws", NoTable)}

FreeRequest ==
  [ pc |-> "free", ep |-> "", q |-> Query(AbsentParam, AbsentParam, "", ""),
    key |-> NoKey, out |-> NoOut, calls |-> 0, path |-> "", resp |-> NoResp ]

ServerInit ==
  /\ env \in ServerEnvs
  /\ now = ServerStart
  /\ cache = << >>
  /\ reqs = [r \in 1..MaxRequests |-> FreeRequest]
  /\ arg = <<>>
  /\ ret = NotReturned

\* a request arrives and its handler runs to its first await, or to its response
Begin(r) ==
  /\ reqs[r].pc = "free"
  /\ \A p \in 1..(r - 1) : reqs[p].pc # "free"
  /\ \E ep \in Endpoints(env) : \E q \in Queries(env, ep) : \E db \in Databases(env, ep) :
       LET b == begin(env, ep, q, db, cache, now) IN
         /\ reqs' = [reqs EXCEPT ![r] =
                       [ pc |-> b.next, ep |-> ep, q |-> q, key |-> b.key, out |-> b.out,
                         calls |-> IF b.next = "awaiting" THEN 1 ELSE 0,
                         path |-> b.path, resp |-> b.resp ]]
         /\ cache' = b.cache
  /\ UNCHANGED <<env, now, arg, ret>>

\* the outbound call of a request settles and its handler runs to the response
Complete(r) ==
  /\ reqs[r].pc = "awaiting"
  /\ \E o \in Outcomes(env) :
       LET f == finish(env, reqs[r].ep, reqs[r].q, reqs[r].key, o, cache, now) IN
         /\ reqs' = [reqs EXCEPT ![r].pc = "done", ![r].path = f.path, ![r].resp = f.resp]
         /\ cache' = f.cache
  /\ UNCHANGED <<env, now, arg, ret>>

\* time passes
Tick ==
  /\ NumLT(now, NumAdd(ServerStart, NumMul(TICK_MS, MaxTicks)))
  /\ now' = NumAdd(now, TICK_MS)
  /\ UNCHANGED <<env, cache, reqs, arg, ret>>

ServerNext ==
  \/ \E r \in 1..MaxRequests : Begin(r)
  \/ \E r \in 1..MaxRequests : Complete(r)
  \/ Tick

SpecServer == ServerInit /\ [][ServerNext]_vars

\* the requests that have been answered
Answered == { r \in DOMAIN reqs : reqs[r].pc = "done" }

\* C2: every response of the weekly and monthly activity endpoints carries
\* in `data` exactly the fixed key set of its grid (the 56 day/block keys,
\* the 30 day keys), each mapped to a non-negative integer, on every path.
C2_FixedKeySet ==
  \A r \in Answered :
    reqs[r].ep \in {"weekly", "monthly"} =>
      LET data == reqs[r].resp.body.data IN
        /\ DOMAIN data = (IF reqs[r].ep = "weekly" THEN WeekKeys ELSE MonthKeys)
        /\ \A k \in DOMAIN data : data[k] \in Nat

\* C8: an image request with a `u` whose upstream fetch did not succeed is
\* answered by a redirect to the placeholder, and only a request without
\* `u` is answered with an error status.
C8_ImageFailureRedirects ==
  \A r \in Answered :
    reqs[r].ep = "img" =>
      IF reqs[r].q.u = "" THEN reqs[r].resp.status = 400
      ELSE \/ reqs[r].resp = StreamResp
           \/ reqs[r].resp = RedirectResp(PLACEHOLDER)

\* the response reports a soft failure: no data of the upstream is in it
EmptyPayload(ep, body) ==
  CASE ep \in {"watched", "added"} -> body.items = <<>>
    [] ep = "daily" -> body.days = <<>> /\ body.counts = <<>>
    [] ep = "weekly" -> \A k \in DOMAIN body.data : body.data[k] = 0
    [] ep = "monthly" -> \A k \in DOMAIN body.data : body.data[k] = 0

\* the returns of the data handlers that answer a soft failure: the backend
\* or the database path is not configured, the database cannot be read, the
\* upstream answered non-ok, timed out or failed
SoftFailurePaths == {"unconfigured", "no-db-path", "db-error", "failed"}

\* C9: a data endpoint answers every soft failure with status 200 and a
\* body of its normal shape with empty data that carries a `warning` field.
C9_SoftFailureWarns ==
  \A r \in Answered :
    (reqs[r].ep # "img" /\ reqs[r].path \in SoftFailurePaths) =>
      /\ reqs[r].resp.status = 200
      /\ EmptyPayload(reqs[r].ep, reqs[r].resp.body)
      /\ "warning" \in DOMAIN reqs[r].resp.body


(***************************************************************************)
(* The TTL cache on its own: writes and lookups at sampled keys as time     *)
(* passes.  arg keeps, per key, the last write (its data, its time t0 and   *)
(* its ms); ret keeps the last lookup (its key, its time and its result).   *)
(***************************************************************************)
MaxCacheTicks == 4

\* the clock moves in steps of half the default TTL
CACHE_STEP_MS == FromInt(5000)

TTL_DEFAULT == FromInt(10000)

CacheKeys == { Key("watched-", "12"), Key("added-", "10") }

CachePayloads == { [items |-> <<>>], [items |-> <<"A">>] }

CacheTtls == { TTL_DEFAULT, TTL_SHORT }

CacheInit ==
  /\ env \in { MkEnv("plex", SampleBaseUrl, <<"S", "K">>, Unset, Unset, SampleBaseUrl, <<"P", "T">>, 0, "NaN") }
  /\ now = ServerStart
  /\ cache = << >>
  /\ reqs = << >>
  /\ arg = << >>
  /\ ret = NotReturned

\* setC(k, data, ms) at the present time
CallSetC ==
  /\ \E k \in CacheKeys : \E data \in CachePayloads : \E ms \in CacheTtls :
       /\ cache' = setC(cache, k, data, ms, now)
       /\ arg' = [x \in DOMAIN arg \cup {k} |->
                    IF x = k THEN [data |-> data, t0 |-> now, ms |-> ms] ELSE arg[x]]
  /\ ret' = NotReturned
  /\ UNCHANGED <<env, now, reqs>>

\* getC(k) at the present time
CallGetC ==
  /\ \E k \in CacheKeys :
       ret' = [done |-> TRUE, k |-> k, at |-> now, v |-> getC(cache, k, now)]
  /\ UNCHANGED <<env, now, cache, reqs, arg>>

CacheTick ==
  /\ NumLT(now, NumAdd(ServerStart, NumMul(CACHE_STEP_MS, MaxCacheTicks)))
  /\ now' = NumAdd(now, CACHE_STEP_MS)
  /\ ret' = NotReturned
  /\ UNCHANGED <<env, cache, reqs, arg>>

CacheNext == CallSetC \/ CallGetC \/ CacheTick

SpecCache == CacheInit /\ [][CacheNext]_vars

\* t0 + ms of the last write to k
Deadline(k) == NumAdd(arg[k].t0, arg[k].ms)

\* C10 as stated: a lookup of a written key returns the data at every time
\* that is not later than t0 + ms, also at t0 + ms exactly, and null at every
\* later time; a lookup of a key never written returns null.
C10_AsStated ==
  ret.done =>
    IF ret.k \notin DOMAIN arg THEN ret.v = NoHit
    ELSE IF NumLT(Deadline(ret.k), ret.at) THEN ret.v = NoHit
    ELSE ret.v = Hit(arg[ret.k].data)

\* C10: a lookup of a written key returns the data of the last write at
\* every time earlier than t0 + ms, and null at t0 + ms and at every later
\* time; a lookup of a key never written returns null.
C10_ExpiresAtDeadline ==
  ret.done =>
    IF ret.k \notin DOMAIN arg THEN ret.v = NoHit
    ELSE IF NumLT(ret.at, Deadline(ret.k)) THEN ret.v = Hit(arg[ret.k].data)
    ELSE ret.v = NoHit

\* a key written with the shorter TTL is looked up at t0 + ms exactly and is
\* not served
C10_Witness ==
  /\ ret.done
  /\ ret.k \in DOMAIN arg
  /\ arg[ret.k].ms = TTL_SHORT
  /\ ret.at = Deadline(ret.k)
  /\ ret.v = NoHit


(***************************************************************************)
(* Frame conditions, concurrency and call counts of the server.             *)
(***************************************************************************)
\* the returns of the data handlers that answer a failure or a warning
WarningPaths == SoftFailurePaths \cup {"no-events"}

\* request r is answered in this step
Answers(r) == reqs[r].pc # "done" /\ reqs'[r].pc = "done"

\* C11: a step in which a data handler answers a failure or a warning
\* (backend or database path unconfigured, upstream error or timeout,
\* database error, no events found) leaves the cache unchanged.
C11_FailureLeavesCache ==
  [][\A r \in DOMAIN reqs :
       (Answers(r) /\ reqs'[r].ep # "img" /\ reqs'[r].path \in WarningPaths) => cache' = cache]_vars

\* request r arrives in this step
Arrives(r) == reqs[r].pc = "free" /\ reqs'[r].pc # "free"

\* the data endpoints whose handler fetches from the upstream
Fetching(e, ep) == ep # "img" /\ ~(e.variant = "jellyfin" /\ ep \in {"weekly", "monthly"})

\* the backend of the fetching data endpoints is configured
Configured(e) == IF e.variant = "jellyfin" THEN hasJellyfinEnv(e) ELSE hasTautulliEnv(e)

\* C12: a request that arrives while its key has no live entry misses and
\* makes its own upstream call, whatever other requests for the key are in
\* flight; and a request whose fetch succeeded leaves under its key its own
\* payload with the expiry counted from the time of its write, so that of
\* two concurrent requests the one that writes last decides the entry.
C12_EachFetchesLastWriteWins ==
  [][\A r \in DOMAIN reqs :
       /\ (Arrives(r) /\ Fetching(env, reqs'[r].ep) /\ Configured(env)
             /\ ~getC(cache, keyOf(env, reqs'[r].ep, reqs'[r].q), now).hit)
            => (reqs'[r].pc = "awaiting" /\ reqs'[r].calls = 1
                  /\ reqs'[r].key = keyOf(env, reqs'[r].ep, reqs'[r].q))
       /\ (Answers(r) /\ reqs'[r].path = "fetched")
            => (reqs[r].key \in DOMAIN cache'
                  /\ cache'[reqs[r].key] =
                       [data |-> reqs'[r].resp.body, t |-> NumAdd(now, ttlOf(reqs[r].ep))])]_vars

\* two requests for added-10 both fetched, one at the start and one a tick
\* later, which is before the first one's entry expires: the second arrived
\* before the first wrote, and the entry is the second's
C12_Witness ==
  \E r1, r2 \in DOMAIN reqs :
    LET k == Key("added-", "10")
        later == NumAdd(ServerStart, TICK_MS)
        q == Query(AbsentParam, AbsentParam, "", "")
    IN /\ r1 # r2
       /\ env.variant = "plex"
       /\ reqs[r1].pc = "done" /\ reqs[r1].path = "fetched" /\ reqs[r1].key = k
       /\ reqs[r2].pc = "done" /\ reqs[r2].path = "fetched" /\ reqs[r2].key = k
       /\ reqs[r1].resp.body = payloadOf(env, "added", q, ServerJson(env), ServerStart)
       /\ reqs[r2].resp.body = payloadOf(env, "added", q, ServerJson(env), later)
       /\ reqs[r1].resp.body # reqs[r2].resp.body
       /\ k \in DOMAIN cache
       /\ cache[k] = [data |-> reqs[r2].resp.body, t |-> NumAdd(later, TTL_LONG)]

\* C13: a request to a list or activity endpoint makes at most one upstream
\* call over its lifetime, and none when the backend is unconfigured or a
\* live cache entry answers it.
C13_AtMostOneCall ==
  [][\A r \in DOMAIN reqs :
       (reqs'[r].pc # "free" /\ reqs'[r].ep # "img") =>
         /\ reqs'[r].calls <= 1
         /\ (reqs[r].pc # "free" => reqs'[r].calls = reqs[r].calls)
         /\ (Fetching(env, reqs'[r].ep) /\ ~Configured(env)) => reqs'[r].calls = 0
         /\ (Arrives(r) /\ getC(cache, keyOf(env, reqs'[r].ep, reqs'[r].q), now).hit)
              => (reqs'[r].calls = 0 /\ reqs'[r].pc = "done")]_vars

\* one request fetched watched-12 with its one call and another was then
\* answered from that entry without a call
C13_Witness ==
  \E r1, r2 \in DOMAIN reqs :
    /\ reqs[r1].pc = "done" /\ reqs[r1].path = "fetched" /\ reqs[r1].calls = 1
    /\ reqs[r1].key = Key("watched-", "12")
    /\ reqs[r2].pc = "done" /\ reqs[r2].path = "hit" /\ reqs[r2].calls = 0
    /\ reqs[r2].ep = "watched" /\ reqs[r2].resp.body = reqs[r1].resp.body

(***************************************************************************)
(* One call of safeFetchJson under the abort timer, inside the handler that *)
(* awaits it.  arg keeps the call: its phase ("fetch" while fetch() is      *)
(* pending, "body" while r.json() is pending, "returned"), the timer, its   *)
(* deadline, what the upstream has sent so far and the outcome.             *)
(***************************************************************************)
\* Number(process.env.TIMEOUT_MS || 1500)
TIMEOUT_MS == FromInt(1500)

\* the clock moves in steps of a third of the timeout
FETCH_STEP_MS == FromInt(500)

\* the phases of the call the abort signal reaches: the timer is cleared in
\* the finally, after the body has been read
abortableFetchOnly(phase) == phase = "fetch"

abortable(phase) == phase \in {"fetch", "body"}

FetchEnvs ==
  { MkEnv(v, SampleBaseUrl, <<"S", "K">>, <<"u">>, <<"d">>, SampleBaseUrl, <<"P", "T">>, 0, "NaN") :
      v \in Variants }

\* the requests that reach their await at the start
FetchRequests(e) ==
  UNION { { [ep |-> ep, q |-> q] : q \in Queries(e, ep) } :
            ep \in { p \in Endpoints(e) : Fetching(e, p) } }

PendingCall(nowMs) ==
  [ phase |-> "fetch", timer |-> "armed", deadline |-> NumAdd(nowMs, TIMEOUT_MS),
    upstream |-> "silent", outcome |-> Outcome("none", Json("none", <<>>)) ]

FetchInit ==
  /\ env \in FetchEnvs
  /\ now = ServerStart
  /\ cache = << >>
  /\ \E x \in FetchRequests(env) :
       LET b == begin(env, x.ep, x.q, Database("throws", NoTable), cache, now) IN
         reqs = << [ pc |-> b.next, ep |-> x.ep, q |-> x.q, key |-> b.key, out |-> b.out,
                     calls |-> 1, path |-> b.path, resp |-> b.resp ] >>
  /\ arg = PendingCall(now)
  /\ ret = NotReturned

\* safeFetchJson returns: the finally clears the timer
Return(o, heard) ==
  /\ arg' = [arg EXCEPT !.phase = "returned", !.timer = "cleared", !.upstream = heard, !.outcome = o]
  /\ ret' = Returned(safeFetchJson(o))
  /\ UNCHANGED <<env, now, cache, reqs>>

\* fetch() resolves with a 2xx status: the call goes on to read the body
FetchResolves ==
  /\ arg.phase = "fetch"
  /\ arg' = [arg EXCEPT !.phase = "body", !.upstream = "headers"]
  /\ UNCHANGED <<env, now, cache, reqs, ret>>

\* fetch() resolves with another status
FetchNotOk ==
  /\ arg.phase = "fetch"
  /\ Return(Outcome("status", Json("none", <<>>)), "answered")

\* fetch() rejects: the connection failed
FetchRejects ==
  /\ arg.phase = "fetch"
  /\ Return(Outcome("error", Json("none", <<>>)), "failed")

\* r.json() resolves
BodyParses ==
  /\ arg.phase = "body"
  /\ Return(Outcome("ok", ServerJson(env)), "answered")

\* r.json() rejects: the body is no JSON
BodyFails ==
  /\ arg.phase = "body"
  /\ Return(Outcome("badjson", Json("none", <<>>)), "answered")

\* the timer fires: ac.abort() rejects the pending fetch() or r.json() with
\* an AbortError, which the catch turns into the timeout result
TimerFires ==
  /\ arg.timer = "armed"
  /\ NumLE(arg.deadline, now)
  /\ abortable(arg.phase)
  /\ Return(Outcome("timeout", Json("none", <<>>)), arg.upstream)

\* time passes while the call is pending, up to the timer's deadline
FetchTick ==
  /\ ~ret.done
  /\ NumLT(now, arg.deadline)
  /\ now' = NumAdd(now, FETCH_STEP_MS)
  /\ UNCHANGED <<env, cache, reqs, arg, ret>>

\* the handler goes on after its await and responds
Respond ==
  /\ ret.done
  /\ reqs[1].pc = "awaiting"
  /\ LET f == finish(env, reqs[1].ep, reqs[1].q, reqs[1].key, arg.outcome, cache, now) IN
       /\ reqs' = [reqs EXCEPT ![1].pc = "done", ![1].path = f.path, ![1].resp = f.resp]
       /\ cache' = f.cache
  /\ UNCHANGED <<env, now, arg, ret>>

FetchNext ==
  \/ FetchResolves \/ FetchNotOk \/ FetchRejects
  \/ BodyParses \/ BodyFails
  \/ TimerFires \/ FetchTick \/ Respond

\* the handler's continuation is ready: its await has a value
Resumable == ret.done /\ reqs[1].pc = "awaiting"

\* the event loop runs a timer that is due and a continuation that is
\* ready, and the clock goes on; the upstream owes nothing.  The last
\* conjunct is weak fairness of Respond with its enabling condition,
\* Resumable, written out (finish is total).
SpecFetch ==
  FetchInit /\ [][FetchNext]_vars
    /\ WF_vars(TimerFires) /\ WF_vars(FetchTick)
    /\ ([]<>(~Resumable) \/ []<><<Respond>>_vars)

\* { ok: true, json } or { ok: false, error }
Structured(v) ==
  /\ "ok" \in DOMAIN v
  /\ IF v.ok THEN DOMAIN v = {"ok", "json"} ELSE DOMAIN v = {"ok", "error"}

TimeoutResult == [ok |-> FALSE, error |-> "timeout after 1500ms"]

\* C14: whatever the upstream does, safeFetchJson eventually returns, and what
\* it returns is a structured result; when the upstream has sent nothing by
\* the timeout the result is the timeout error; and the handler then
\* responds.
C14_BoundedFetch ==
  /\ <>(ret.done)
  /\ [](ret.done => Structured(ret.v))
  /\ []((ret.done /\ arg.upstream = "silent") => ret.v = TimeoutResult)
  /\ [](ret.done => <>(reqs[1].pc = "done" /\ reqs[1].resp.status = 200))

\* the upstream stayed silent, the call returned the timeout error at its
\* deadline and the handler answered with the warning
C14_Witness ==
  /\ ret.done /\ ret.v = TimeoutResult
  /\ arg.upstream = "silent"
  /\ now = NumAdd(ServerStart, TIMEOUT_MS)
  /\ reqs[1].pc = "done" /\ reqs[1].path = "failed"
  /\ "warning" \in DOMAIN reqs[1].resp.body

(***************************************************************************)
(* getPlaybackEvents on its own: the database answers each of the six       *)
(* candidate queries by throwing or with rows, and the function is called   *)
(* once.                                                                    *)
(***************************************************************************)
EventInstantA == NumSub(ServerStart, NumMul(DAY_MS, 5))

EventInstantB == NumSub(ServerStart, NumMul(DAY_MS, 2))

QueryAnswers ==
  { Throws, Rows(<<>>), Rows(<<NaN>>), Rows(<<NumV(EventInstantA)>>),
    Rows(<<NaN, NumV(EventInstantB)>>) }

EventsInit ==
  /\ env \in { e \in MonthlyEnvs : e.variant = "jellyfin" }
  /\ now = ServerStart
  /\ cache = << >>
  /\ reqs = << >>
  /\ arg \in { Database("ok", q) : q \in [1..NUM_QUERIES -> QueryAnswers] }
  /\ ret = NotReturned

CallGetPlaybackEvents ==
  /\ ~ret.done
  /\ ret' = Returned(getPlaybackEvents(arg))
  /\ UNCHANGED <<env, now, cache, reqs, arg>>

EventsNext == CallGetPlaybackEvents

SpecEvents == EventsInit /\ [][EventsNext]_vars

\* the candidate queries that yield a non-empty event list
Yielding(db) ==
  { i \in 1..NUM_QUERIES : ~db.queries[i].threw /\ validDates(db.queries[i].rows) # <<>> }

Least(S) == CHOOSE i \in S : \A j \in S : i <= j

\* C15: the events returned are those of the first candidate query that
\* yields a non-empty event list, and the empty list is returned only when
\* no candidate yields one.
C15_ChainKeepsGoing ==
  ret.done =>
    IF Yielding(arg) = {} THEN ret.v = <<>>
    ELSE ret.v = validDates(arg.queries[Least(Yielding(arg))].rows)

(***************************************************************************)
(* The jellyfin variant's aggregators run again and again over one event    *)
(* list while the system clock goes on; ret.v keeps the grid of each run.   *)
(***************************************************************************)
MaxRuns == 2

MaxClockDays == 2

AggregateInit ==
  /\ env \in { e \in MonthlyEnvs : e.variant = "jellyfin" }
  /\ now = ServerStart
  /\ cache = << >>
  /\ reqs = << >>
  /\ arg \in { [fn |-> f, events |-> ev] :
                 f \in {"weekly", "monthly"}, ev \in MonthlyInputs(env, ServerStart) }
  /\ ret = Returned(<< >>)

RunWeekly ==
  /\ arg.fn = "weekly" /\ Len(ret.v) < MaxRuns
  /\ ret' = Returned(Append(ret.v, buildWeeklyActivityData(dateList(arg.events), env.tz)))
  /\ UNCHANGED <<env, now, cache, reqs, arg>>

\* `const now = new Date()`: the aggregator reads the clock itself
RunMonthly ==
  /\ arg.fn = "monthly" /\ Len(ret.v) < MaxRuns
  /\ ret' = Returned(Append(ret.v, buildMonthlyActivityData(dateList(arg.events), now)))
  /\ UNCHANGED <<env, now, cache, reqs, arg>>

ClockDay ==
  /\ NumLT(now, NumAdd(ServerStart, NumMul(DAY_MS, MaxClockDays)))
  /\ now' = NumAdd(now, DAY_MS)
  /\ UNCHANGED <<env, cache, reqs, arg, ret>>

AggregateNext == RunWeekly \/ RunMonthly \/ ClockDay

SpecAggregate == AggregateInit /\ [][AggregateNext]_vars

\* C16: the runs of an aggregator over one event list produce the same grid,
\* whatever the system clock read during each of them.
C16_SameGridAnyClock ==
  \A i, j \in 1..Len(ret.v) : ret.v[i] = ret.v[j]

(***************************************************************************)
(* List assembly at another time.                                           *)
(***************************************************************************)
\* the assembly SpecList's action runs for the call a, with the clock at nowMs
assembledAt(e, a, nowMs) ==
  IF e.variant = "jellyfin"
  THEN (IF a.ep = "watched" THEN assembleJellyfinWatched(e, a.list)
        ELSE assembleJellyfinAdded(e, a.list, nowMs))
  ELSE (IF a.ep = "watched" THEN assembleWatched(e, a.list, a.limit)
        ELSE assembleAdded(e, a.list, a.limit, nowMs))

\* C17: the list assembled from a record list and a limit is the list that
\* is assembled from them a millisecond later.
C17_SameListAnyTime ==
  (ret.done /\ arg.fn = "list") =>
    ret.v = assembledAt(env, arg, NumAdd(now, ONE_MS))

\* the whole input assembled and sorted newest first, nothing cut off
sortedWhole(e, a, nowMs) == assembledAt(e, [a EXCEPT !.limit = NaNLimit], nowMs)

\* C18: with a limit of at least 1 the returned items are the first `limit`
\* items of the whole input sorted newest first.
C18_SortsThenTruncates ==
  (ret.done /\ arg.fn = "list" /\ ~arg.limit.nan /\ arg.limit.n >= 1) =>
    LET whole == sortedWhole(env, arg, now) IN
      ret.v = SubSeq(whole, 1, Min(arg.limit.n, Len(whole)))

\* C19: every item of a recently-watched list comes from a record that has a
\* played timestamp, and no item has watched_at null.
C19_UnplayedSkipped ==
  (ret.done /\ arg.fn = "list" /\ arg.ep = "watched") =>
    \A i \in 1..Len(ret.v) :
      /\ ret.v[i].watched_at # Null
      /\ ~LacksTimestamp(env, "watched", RecordOf(env, arg.list, ret.v[i]))

(***************************************************************************)
(* Weekly bucketing on sampled event lists: the jellyfin variant's          *)
(* buildWeeklyActivityData and the loop of the plex variant's handler.      *)
(***************************************************************************)
WeeklyInit ==
  /\ env \in MonthlyEnvs
  /\ now \in SampleNows
  /\ cache = << >>
  /\ reqs = << >>
  /\ arg \in { [fn |-> "weekly", events |-> ev] : ev \in MonthlyInputs(env, now) }
  /\ ret = NotReturned

CallBuildWeekly ==
  /\ arg.fn = "weekly" /\ ~ret.done /\ env.variant = "jellyfin"
  /\ ret' = Returned(buildWeeklyActivityData(dateList(arg.events), env.tz))
  /\ UNCHANGED <<env, now, cache, reqs, arg>>

CallWeekHistory ==
  /\ arg.fn = "weekly" /\ ~ret.done /\ env.variant = "plex"
  /\ ret' = Returned(weekHistoryLoop(createEmptyWeeklyData, historyList(arg.events),
                                     now, env.tz, env.legacy))
  /\ UNCHANGED <<env, now, cache, reqs, arg>>

WeeklyNext == CallBuildWeekly \/ CallWeekHistory

SpecWeekly == WeeklyInit /\ [][WeeklyNext]_vars

\* the timestamped events of the list that fall in the cell key
EventsInCell(events, key, tz) ==
  { i \in 1..Len(events) : events[i] # Null /\ weekKeyOf(events[i].n, tz) = key }

\* C20: every cell of the week grid counts exactly the timestamped events of
\* its day of the week and 3-hour block, however old they are, so the counts
\* add up to the number of timestamped events.
C20_WeeklyCountsEveryEvent ==
  (ret.done /\ arg.fn = "weekly") =>
    /\ DOMAIN ret.v = WeekKeys
    /\ \A key \in WeekKeys :
         ret.v[key] = Cardinality(EventsInCell(arg.events, key, env.tz))
    /\ SumOver(ret.v, WeekKeys) =
         Cardinality({ i \in 1..Len(arg.events) : arg.events[i] # Null })

(***************************************************************************)
(* The cache under the server's requests, key by key.                       *)
(***************************************************************************)
\* the cache key the handler of request r computes, in the state after the step
keyOfRequest(r) == keyOf(env, reqs'[r].ep, reqs'[r].q)

\* request r is answered in this step and its handler wrote its payload under k
WritesUnder(r, k) ==
  /\ Answers(r) /\ reqs'[r].ep # "img"
  /\ keyOfRequest(r) = k
  /\ k \in DOMAIN cache'
  /\ cache'[k].data = reqs'[r].resp.body

\* the step leaves key k as it was: absent, or with the same entry
KeepsKey(k) ==
  /\ (k \in DOMAIN cache) = (k \in DOMAIN cache')
  /\ k \in DOMAIN cache => cache'[k] = cache[k]

\* C21: a request answered from the cache gets the payload its key holds and
\* leaves the whole cache as it was; and in every step each key keeps its
\* entry unless a request with that very key writes its own payload under
\* it, so that the entry of a key is always the most recent write to that key
\* and writes under other keys never touch it.
C21_HitReturnsLastWrite ==
  [][/\ \A r \in DOMAIN reqs :
          (Arrives(r) /\ reqs'[r].path = "hit") =>
            /\ keyOfRequest(r) \in DOMAIN cache
            /\ reqs'[r].resp.body = cache[keyOfRequest(r)].data
            /\ cache' = cache
     /\ \A k \in DOMAIN cache \cup DOMAIN cache' :
          KeepsKey(k) \/ \E r \in DOMAIN reqs : WritesUnder(r, k)]_vars

\* a request fetched added-10 and wrote its payload; another request for
\* added-10 was answered from that entry, which the cache still holds alone
\* and as it was written
C21_Witness ==
  \E r1, r2 \in DOMAIN reqs :
    LET k == Key("added-", "10") IN
      /\ env.variant = "plex"
      /\ reqs[r1].pc = "done" /\ reqs[r1].path = "fetched" /\ reqs[r1].key = k
      /\ reqs[r2].pc = "done" /\ reqs[r2].path = "hit" /\ reqs[r2].ep = "added"
      /\ reqs[r1].resp.body.items # <<>>
      /\ reqs[r2].resp.body = reqs[r1].resp.body
      /\ DOMAIN cache = {k}
      /\ cache[k] = [data |-> reqs[r1].resp.body, t |-> NumAdd(ServerStart, TTL_LONG)]

\* C22: an outbound request of the image proxy that carries the Jellyfin
\* token goes to a location on the configured Jellyfin backend.
C22_TokenOnlyToBackend ==
  \A r \in DOMAIN reqs :
    (reqs[r].pc # "free" /\ reqs[r].ep = "img" /\ reqs[r].out # NoOut
       /\ reqs[r].out.auth = env.JELLYFIN_TOKEN)
      => reqs[r].out.url = "backend"

=============================================================================
